---- MODULE Spec2Model ----
(***************************************************************************)
(* Model of the tic-tac-toe gRPC server (src/server/src/main.rs): one      *)
(* SharedGame behind a tokio Mutex, the admission code of play(), the      *)
(* per-connection move loop and the reset that runs when a connection's    *)
(* inbound stream ends.  Every connection owns a bounded mpsc channel of   *)
(* GameState snapshots that the client side drains.                        *)
(***************************************************************************)
EXTENDS Integers, Sequences, FiniteSets, TLC

VARIABLES
    board,        \* SharedGame.board: 9 cells, "" / "X" / "O"
    next_player,  \* SharedGame.next_player
    status,       \* SharedGame.status
    player_x,     \* SharedGame.player_x: None or a PlayerConnection
    player_o,     \* SharedGame.player_o
    chan,         \* per symbol: the mpsc channel of that connection (queued GameState)
    closed,       \* per symbol: the receiver half of that channel was dropped
    task,         \* per symbol: position of the spawned connection task
    lock,         \* holder of the Mutex<SharedGame>
    pending,      \* sends the lock holder still has to complete (send().await)
    stalled,      \* symbols whose client never reads its channel
    last,         \* the most recent server step: operation, connection, outcome
                  \* (for a release: the status it reset)
    client        \* per symbol: the ClientState of the client on that connection

vars == <<board, next_player, status, player_x, player_o, chan, closed,
          task, lock, pending, stalled, last, client>>

----------------------------------------------------------------------------
(* Program constants and bounds *)

ChanCap == 32

BoardSize == 9

MaxPending == 1

Symbols == {"X", "O"}

None == [none |-> TRUE]

Cells == 0 .. (BoardSize - 1)

\* Move.position is an i32 on the wire; the values tried by the model: every
\* cell, the first index past the board, and two negative values (the second
\* has the low 16 bits of cell 4)
Positions == {-1, 4 - 2 ^ 16} \cup (0 .. BoardSize)

Other(s) == IF s = "X" THEN "O" ELSE "X"

PlayerConnection(s) == [symbol |-> s]

EmptyBoard == [i \in Cells |-> ""]

----------------------------------------------------------------------------
(* SharedGame *)

\* is_full as it would be if the scan stopped one cell short
is_full_SkipsLast(b) == \A i \in 0 .. (BoardSize - 2) : b[i] # ""

is_full(b) == \A i \in Cells : b[i] # ""

lines == << <<0, 1, 2>>, <<3, 4, 5>>, <<6, 7, 8>>,
            <<0, 3, 6>>, <<1, 4, 7>>, <<2, 5, 8>>,
            <<0, 4, 8>>, <<2, 4, 6>> >>

LineHit(b, l) == b[l[1]] # "" /\ b[l[1]] = b[l[2]] /\ b[l[2]] = b[l[3]]

RECURSIVE ScanLines(_, _)
ScanLines(b, k) ==
    IF k > Len(lines) THEN None
    ELSE IF LineHit(b, lines[k]) THEN [some |-> b[lines[k][1]]]
    ELSE ScanLines(b, k + 1)

\* check_winner as it would be if the scan missed the first line
check_winner_SkipsFirst(b) == ScanLines(b, 2)

check_winner(b) == ScanLines(b, 1)

WinStatus(w) == IF w = "X" THEN "X_win" ELSE "O_win"

\* AsUsize as it would be if the cast kept only the low 16 bits
AsUsize_Truncates(p) == << 0, 0, 0, p % (2 ^ 16) >>

\* mv.position as usize: the i32 is sign-extended to 64 bits and read as
\* unsigned.  The result is kept as four 16-bit limbs, most significant first.
AsUsize(p) ==
    LET m == 2 ^ 16
        sign == IF p < 0 THEN m - 1 ELSE 0
    IN << sign, sign, (p \div m) % m, p % m >>

\* u < n for a usize u and a small n
UsizeLt(u, n) == u[1] = 0 /\ u[2] = 0 /\ u[3] = 0 /\ u[4] < n

\* the value of a usize known to be small
UsizeIndex(u) == u[4]

GameState(b, np, st, sym) ==
    [board |-> b, next_player |-> np, status |-> st, your_symbol |-> sym]

----------------------------------------------------------------------------
(* The bounded mpsc channel *)

\* try_send as it would be if the message were lost
try_send_Drops(q, cl, m) == q

\* tx.try_send(m): queued when there is room and a receiver, else an Err the
\* caller only logs
try_send(q, cl, m) == IF ~cl /\ Len(q) < ChanCap THEN Append(q, m) ELSE q

\* send_all as it would be if a message were put at the head of the queue
RECURSIVE send_all_Prepends(_, _, _)
send_all_Prepends(ch, cl, pend) ==
    IF pend = <<>> THEN [chan |-> ch, pending |-> <<>>]
    ELSE LET h == Head(pend) IN
         IF cl[h.to] THEN send_all_Prepends(ch, cl, Tail(pend))
         ELSE IF Len(ch[h.to]) < ChanCap
              THEN send_all_Prepends([ch EXCEPT ![h.to] = << h.msg >> \o @], cl,
                                     Tail(pend))
              ELSE [chan |-> ch, pending |-> pend]

\* tx.send(m).await over the sends `pend` of one notification cycle, in order:
\* a send to a dropped receiver returns Err (ignored by `let _ =`), a send to a
\* channel with room queues the message, a send to a full channel suspends the
\* caller with the remaining sends still to do
RECURSIVE send_all(_, _, _)
send_all(ch, cl, pend) ==
    IF pend = <<>> THEN [chan |-> ch, pending |-> <<>>]
    ELSE LET h == Head(pend) IN
         IF cl[h.to] THEN send_all(ch, cl, Tail(pend))
         ELSE IF Len(ch[h.to]) < ChanCap
              THEN send_all([ch EXCEPT ![h.to] = Append(@, h.msg)], cl, Tail(pend))
              ELSE [chan |-> ch, pending |-> pend]

\* Updates as it would be if the clones kept the template's your_symbol
Updates_SharedTemplate(px, po, update) ==
    (IF px # None THEN << [to |-> "X", msg |-> update] >> ELSE << >>)
    \o
    (IF po # None THEN << [to |-> "O", msg |-> update] >> ELSE << >>)

\* The update of one broadcast: a clone per occupied slot with your_symbol set
\* to that slot's symbol, player_x first
Updates(px, po, update) ==
    (IF px # None
        THEN << [to |-> "X", msg |-> [update EXCEPT !.your_symbol = px.symbol]] >>
        ELSE << >>)
    \o
    (IF po # None
        THEN << [to |-> "O", msg |-> [update EXCEPT !.your_symbol = po.symbol]] >>
        ELSE << >>)

\* Network events reach the server only while every reading client has fewer
\* than MaxPending snapshots still queued (clients that read keep up)
ClientsKeepUp == \A s \in Symbols \ stalled : Len(chan[s]) < MaxPending

Outcome(op, by, result) == [op |-> op, by |-> by, result |-> result]

----------------------------------------------------------------------------
(* The client (src/client/src/main.rs) *)

\* ClientState::new: no symbol yet (None is the empty sequence, Some(s) is
\* <<s>>), an empty status
ClientNew == [player_symbol |-> <<>>, game_status |-> ""]

\* process_server_updates on one GameState: the status is stored; a final
\* status ends the loop before the symbol is looked at; otherwise the symbol
\* is stored when none is stored yet or the stored one differs
ClientUpdate(c, m) ==
    [player_symbol |-> IF m.status \in {"X_win", "O_win", "draw"}
                          THEN c.player_symbol
                          ELSE IF c.player_symbol = <<>> \/ c.player_symbol[1] # m.your_symbol
                                  THEN << m.your_symbol >>
                                  ELSE c.player_symbol,
     game_status |-> m.status]

----------------------------------------------------------------------------
(* SharedGame::new and the server start *)

InitNew ==
    /\ board = EmptyBoard
    /\ next_player = "X"
    /\ status = "waiting"
    /\ player_x = None
    /\ player_o = None
    /\ chan = [s \in Symbols |-> <<>>]
    /\ closed = [s \in Symbols |-> FALSE]
    /\ task = [s \in Symbols |-> "none"]
    /\ lock = "free"
    /\ pending = <<>>
    /\ stalled = {}
    /\ last = Outcome("start", "-", "-")
    /\ client = [s \in Symbols |-> ClientNew]

\* The server some time later: X was admitted and its client reads nothing;
\* since then ChanCap - 3 opponents were admitted as O and left without a
\* move.  X's channel holds its initial snapshot and one "ongoing" update per
\* opponent, two short of full.
StalledQueue ==
    << GameState(EmptyBoard, "X", "waiting", "X") >>
    \o [i \in 1 .. (ChanCap - 3) |-> GameState(EmptyBoard, "X", "ongoing", "X")]

InitStalled ==
    /\ board = EmptyBoard
    /\ next_player = "X"
    /\ status = "waiting"
    /\ player_x = PlayerConnection("X")
    /\ player_o = None
    /\ chan = [s \in Symbols |-> IF s = "X" THEN StalledQueue ELSE <<>>]
    /\ closed = [s \in Symbols |-> FALSE]
    /\ task = [s \in Symbols |-> IF s = "X" THEN "reading" ELSE "none"]
    /\ lock = "free"
    /\ pending = <<>>
    /\ stalled = {"X"}
    /\ last = Outcome("start", "-", "-")
    /\ client = [s \in Symbols |-> ClientNew]

\* A channel only fills when its client leaves ChanCap snapshots unread, which
\* takes many games; the behaviours are explored from the fresh server and
\* from the server at that later point.
Init == InitNew \/ InitStalled

----------------------------------------------------------------------------
(* play(): admission of a new connection, under the lock *)

\* Play as it would be without the test that the O slot is free
Play_ThirdTakesO ==
    /\ lock = "free"
    /\ ClientsKeepUp
    /\ IF player_x = None THEN
          /\ player_x' = PlayerConnection("X")
          /\ chan' = [chan EXCEPT !["X"] =
                        try_send(<<>>, FALSE,
                                 GameState(board, next_player, status, "X"))]
          /\ closed' = [closed EXCEPT !["X"] = FALSE]
          /\ task' = [task EXCEPT !["X"] = "reading"]
          /\ last' = Outcome("play", "X", "admitted")
          /\ client' = [client EXCEPT !["X"] = ClientNew]
          /\ UNCHANGED <<board, next_player, status, player_o, lock, pending, stalled>>
       ELSE
          LET po  == PlayerConnection("O")
              ch0 == [chan EXCEPT !["O"] = <<>>]
              cl0 == [closed EXCEPT !["O"] = FALSE]
              update == GameState(board, next_player, "ongoing", "")
              r == send_all(ch0, cl0, Updates(player_x, po, update))
          IN /\ player_o' = po
             /\ status' = "ongoing"
             /\ chan' = r.chan
             /\ closed' = cl0
             /\ pending' = r.pending
             /\ IF r.pending = <<>>
                   THEN lock' = "free" /\ task' = [task EXCEPT !["O"] = "reading"]
                   ELSE lock' = "play" /\ task' = task
             /\ last' = Outcome("play", "O", "admitted")
             /\ client' = [client EXCEPT !["O"] = ClientNew]
             /\ UNCHANGED <<board, next_player, player_x, stalled>>

Play ==
    /\ lock = "free"
    /\ ClientsKeepUp
    /\ IF player_x = None THEN
          /\ player_x' = PlayerConnection("X")
          /\ chan' = [chan EXCEPT !["X"] =
                        try_send(<<>>, FALSE,
                                 GameState(board, next_player, status, "X"))]
          /\ closed' = [closed EXCEPT !["X"] = FALSE]
          /\ task' = [task EXCEPT !["X"] = "reading"]
          /\ last' = Outcome("play", "X", "admitted")
          /\ client' = [client EXCEPT !["X"] = ClientNew]
          /\ UNCHANGED <<board, next_player, status, player_o, lock, pending, stalled>>
       ELSE IF player_o = None THEN
          LET po  == PlayerConnection("O")
              ch0 == [chan EXCEPT !["O"] = <<>>]
              cl0 == [closed EXCEPT !["O"] = FALSE]
              update == GameState(board, next_player, "ongoing", "")
              r == send_all(ch0, cl0, Updates(player_x, po, update))
          IN /\ player_o' = po
             /\ status' = "ongoing"
             /\ chan' = r.chan
             /\ closed' = cl0
             /\ pending' = r.pending
             /\ IF r.pending = <<>>
                   THEN lock' = "free" /\ task' = [task EXCEPT !["O"] = "reading"]
                   ELSE lock' = "play" /\ task' = task
             /\ last' = Outcome("play", "O", "admitted")
             /\ client' = [client EXCEPT !["O"] = ClientNew]
             /\ UNCHANGED <<board, next_player, player_x, stalled>>
       ELSE
          /\ last' = Outcome("play", "-", "resource_exhausted")
          /\ UNCHANGED <<board, next_player, status, player_x, player_o, chan,
                         closed, task, lock, pending, stalled, client>>

----------------------------------------------------------------------------
(* The spawned connection task: one inbound Move *)

\* ApplyStatus as it would be if the full board were tested before the winner
ApplyStatus_DrawFirst(b) ==
    LET w == check_winner(b) IN
    IF is_full(b) THEN "draw"
    ELSE IF w # None THEN WinStatus(w.some)
    ELSE "ongoing"

ApplyStatus(b) ==
    LET w == check_winner(b) IN
    IF w # None THEN WinStatus(w.some)
    ELSE IF is_full(b) THEN "draw"
    ELSE "ongoing"

\* ApplyNext as it would be if the turn were never passed on
ApplyNext_Same(b, s) == next_player

ApplyNext(b, s) ==
    IF check_winner(b) # None \/ is_full(b) THEN next_player ELSE Other(s)

\* Check as it would be without the test of the status
Check_IgnoresStatus(s, position) ==
    IF next_player # s THEN "not_your_turn"
    ELSE IF ~UsizeLt(AsUsize(position), BoardSize) THEN "invalid_position"
    ELSE IF board[UsizeIndex(AsUsize(position))] # "" THEN "cell_occupied"
    ELSE "ok"

\* The checks of lines 169-187, first failing check first; "ok" when the move
\* passes them all.  The symbol tested is the connection's, never the one the
\* Move claims.
Check(s, position) ==
    IF status # "ongoing" THEN "not_ongoing"
    ELSE IF next_player # s THEN "not_your_turn"
    ELSE IF ~UsizeLt(AsUsize(position), BoardSize) THEN "invalid_position"
    ELSE IF board[UsizeIndex(AsUsize(position))] # "" THEN "cell_occupied"
    ELSE "ok"

\* Reject as it would be if a refused move still used up the turn
Reject_FlipsTurn(s, why) ==
    /\ last' = Outcome("move", s, why)
    /\ next_player' = Other(next_player)
    /\ UNCHANGED <<board, status, player_x, player_o, chan, closed,
                   task, lock, pending, stalled, client>>

\* a failed check: a log line and `continue`
Reject(s, why) ==
    /\ last' = Outcome("move", s, why)
    /\ UNCHANGED <<board, next_player, status, player_x, player_o, chan, closed,
                   task, lock, pending, stalled, client>>

\* lines 189-222: apply the move, decide the status, broadcast
Apply(s, pos) ==
    LET b  == [board EXCEPT ![pos] = s]
        st == ApplyStatus(b)
        np == ApplyNext(b, s)
        update == GameState(b, np, st, "")
        r == send_all(chan, closed, Updates(player_x, player_o, update))
    IN /\ board' = b
       /\ status' = st
       /\ next_player' = np
       /\ chan' = r.chan
       /\ pending' = r.pending
       /\ lock' = IF r.pending = <<>> THEN "free" ELSE s
       /\ last' = Outcome("move", s, "applied")
       /\ UNCHANGED <<player_x, player_o, closed, task, stalled, client>>

\* Move as it would be if the server believed the Move's player_id
Move_TrustsClaim(s, claimed, position) ==
    /\ task[s] = "reading"
    /\ lock = "free"
    /\ ClientsKeepUp
    /\ IF Check(claimed, position) = "ok"
          THEN Apply(claimed, UsizeIndex(AsUsize(position)))
          ELSE Reject(claimed, Check(claimed, position))

\* the task reads one Move from its stream and takes the lock
Move(s, claimed, position) ==
    /\ task[s] = "reading"
    /\ lock = "free"
    /\ ClientsKeepUp
    /\ IF Check(s, position) = "ok"
          THEN Apply(s, UsizeIndex(AsUsize(position)))
          ELSE Reject(s, Check(s, position))

----------------------------------------------------------------------------
(* The lock holder suspended in send().await resumes when the channel it
   waits on gets room or loses its receiver; play() spawns the connection
   task of the new O once its broadcast is done *)

Resume(ch, cl, tk) ==
    LET r == send_all(ch, cl, pending) IN
    /\ chan' = r.chan
    /\ pending' = r.pending
    /\ lock' = IF r.pending = <<>> THEN "free" ELSE lock
    /\ task' = IF r.pending = <<>> /\ lock = "play"
                  THEN [tk EXCEPT !["O"] = "reading"]
                  ELSE tk

----------------------------------------------------------------------------
(* The client side of a connection *)

\* the client takes the next snapshot from its response stream
Recv(s) ==
    /\ chan[s] # <<>>
    /\ s \notin stalled
    /\ ~closed[s]
    /\ Resume([chan EXCEPT ![s] = Tail(@)], closed, task)
    /\ client' = [client EXCEPT ![s] = ClientUpdate(@, Head(chan[s]))]
    /\ UNCHANGED <<board, next_player, status, player_x, player_o, closed,
                   stalled, last>>

\* ResetGame as it would be if a disconnect emptied the whole table
ResetGame_ClearsBoth(s) ==
    /\ player_x' = None
    /\ player_o' = None
    /\ board' = EmptyBoard
    /\ next_player' = "X"
    /\ status' = "waiting"
    /\ task' = [task EXCEPT ![s] = "none"]
    /\ chan' = [chan EXCEPT ![s] = <<>>]
    /\ closed' = [closed EXCEPT ![s] = FALSE]
    /\ stalled' = stalled \ {s}
    /\ last' = Outcome("release", s, status)
    /\ client' = [client EXCEPT ![s] = ClientNew]
    /\ UNCHANGED <<lock, pending>>

\* ResetGame as it would be if the reset forgot whose turn it is
ResetGame_KeepsTurn(s) ==
    /\ player_x' = IF player_x # None /\ player_x.symbol = s THEN None ELSE player_x
    /\ player_o' = IF player_o # None /\ player_o.symbol = s THEN None ELSE player_o
    /\ board' = EmptyBoard
    /\ next_player' = next_player
    /\ status' = "waiting"
    /\ task' = [task EXCEPT ![s] = "none"]
    /\ chan' = [chan EXCEPT ![s] = <<>>]
    /\ closed' = [closed EXCEPT ![s] = FALSE]
    /\ stalled' = stalled \ {s}
    /\ last' = Outcome("release", s, status)
    /\ client' = [client EXCEPT ![s] = ClientNew]
    /\ UNCHANGED <<lock, pending>>

\* After the loop (lines 230-251), under the lock: remove this player and
\* reset the game.  The task ends, which drops its sender.
ResetGame(s) ==
    /\ player_x' = IF player_x # None /\ player_x.symbol = s THEN None ELSE player_x
    /\ player_o' = IF player_o # None /\ player_o.symbol = s THEN None ELSE player_o
    /\ board' = EmptyBoard
    /\ next_player' = "X"
    /\ status' = "waiting"
    /\ task' = [task EXCEPT ![s] = "none"]
    /\ chan' = [chan EXCEPT ![s] = <<>>]
    /\ closed' = [closed EXCEPT ![s] = FALSE]
    /\ stalled' = stalled \ {s}
    /\ last' = Outcome("release", s, status)
    /\ client' = [client EXCEPT ![s] = ClientNew]
    /\ UNCHANGED <<lock, pending>>

\* inbound.message() yields None (end of stream) or Err: the loop is left and
\* the task asks for the lock.  It gets it at once when the lock is free, else
\* it waits.  With `drop` the whole connection went away, so the receiver of
\* the connection's channel is dropped as well; without it the client only
\* closed its request stream and still reads snapshots.
StreamEnd(s, drop) ==
    /\ task[s] = "reading"
    /\ lock # s
    /\ IF lock = "free" THEN ResetGame(s)
       ELSE /\ IF drop
                 THEN /\ closed' = [closed EXCEPT ![s] = TRUE]
                      /\ Resume([chan EXCEPT ![s] = <<>>], closed',
                                [task EXCEPT ![s] = "ended"])
                 ELSE /\ task' = [task EXCEPT ![s] = "ended"]
                      /\ UNCHANGED <<chan, closed, pending, lock>>
            /\ UNCHANGED <<board, next_player, status, player_x, player_o,
                           stalled, last, client>>

\* the waiting task gets the lock
Release(s) ==
    /\ task[s] = "ended"
    /\ lock = "free"
    /\ ResetGame(s)

----------------------------------------------------------------------------

Next ==
    \/ Play
    \/ \E s \in Symbols, claimed \in Symbols, position \in Positions :
          Move(s, claimed, position)
    \/ \E s \in Symbols : Recv(s)
    \/ \E s \in Symbols, drop \in BOOLEAN : StreamEnd(s, drop)
    \/ \E s \in Symbols : Release(s)

Spec == Init /\ [][Next]_vars

----------------------------------------------------------------------------
(* The handling of one Move, looked at from positions of sample games: what
   the handler does depends on the status, the turn, the cell and the inputs
   only, so it is examined for every input in every position of a few games
   that end in each possible way. *)

\* games as the sequence of cells marked in turn, X first: two wins of X, two
\* wins of O, two draws
SampleGames ==
    { << 0, 3, 1, 4, 2 >>,
      << 4, 1, 0, 2, 8 >>,
      << 0, 3, 1, 4, 8, 5 >>,
      << 4, 0, 8, 2, 6, 1 >>,
      << 0, 1, 2, 4, 3, 5, 7, 6, 8 >>,
      << 4, 0, 2, 6, 3, 5, 1, 7, 8 >> }

\* board, turn and status after the marks of q were applied in turn to a new
\* game between two seated players (lines 189-203 for each mark)
RECURSIVE Replay(_)
Replay(q) ==
    IF q = << >>
       THEN [board |-> EmptyBoard, next_player |-> "X", status |-> "ongoing"]
       ELSE LET g == Replay(SubSeq(q, 1, Len(q) - 1))
                b == [g.board EXCEPT ![q[Len(q)]] = g.next_player]
            IN [board |-> b,
                next_player |-> IF check_winner(b) # None \/ is_full(b)
                                   THEN g.next_player
                                   ELSE Other(g.next_player),
                status |-> ApplyStatus(b)]

\* both players seated, some marks of a sample game applied, every snapshot
\* read by the clients
InitGame ==
    \E q \in SampleGames : \E n \in 0 .. Len(q) :
       LET g == Replay(SubSeq(q, 1, n)) IN
       /\ board = g.board
       /\ next_player = g.next_player
       /\ status = g.status
       /\ player_x = PlayerConnection("X")
       /\ player_o = PlayerConnection("O")
       /\ chan = [s \in Symbols |-> << >>]
       /\ closed = [s \in Symbols |-> FALSE]
       /\ task = [s \in Symbols |-> "reading"]
       /\ lock = "free"
       /\ pending = << >>
       /\ stalled = {}
       /\ last = Outcome("start", "-", "-")
       /\ client = [s \in Symbols |->
                      [player_symbol |-> << s >>, game_status |-> g.status]]

NextMove ==
    \E s \in Symbols, claimed \in Symbols, position \in Positions :
       Move(s, claimed, position)

SpecMoves == InitGame /\ [][NextMove]_vars


----------------------------------------------------------------------------
(* Steps and states the properties below talk about *)

Slot(s) == IF s = "X" THEN player_x ELSE player_o

BothOccupied == player_x # None /\ player_o # None

Terminal == {"X_win", "O_win", "draw"}

\* this step admits a connection to the slot of s
Admitted(s) == Slot(s) = None /\ Slot(s)' # None

\* this step is the release/reset of the connection task of s
Released(s) == task[s] # "none" /\ task'[s] = "none"

\* this step handles one Move
MoveStep == last' # last /\ last'.op = "move"

\* this step queues exactly one snapshot with status st for s (q is the
\* channel of s before the step)
Queued(s, q, st) ==
    /\ Len(chan'[s]) = Len(q) + 1
    /\ SubSeq(chan'[s], 1, Len(q)) = q
    /\ chan'[s][Len(q) + 1].status = st
    /\ chan'[s][Len(q) + 1].your_symbol = s

\* this step sends s one snapshot with status st: it is queued, or the send
\* is still in progress, or the receiver of s is gone
SentTo(s, q, st) ==
    \/ Queued(s, q, st)
    \/ \E i \in DOMAIN pending' :
          /\ pending'[i].to = s
          /\ pending'[i].msg.status = st
          /\ pending'[i].msg.your_symbol = s
    \/ closed'[s]

----------------------------------------------------------------------------
(* C1: in every reachable state the status is "waiting" if and only if at
   least one of the two player slots is empty; in particular the status is
   not "waiting" while both slots are occupied.  Fails: after X leaves and a
   new connection takes the X slot, both slots are occupied and the status
   still is "waiting". *)
C1_WaitingIffSlotFree ==
    (status = "waiting") <=> (player_x = None \/ player_o = None)

(* C2: an admission that fills the last free slot, whichever slot that is,
   sets the status to "ongoing" in the same step and queues an "ongoing"
   snapshot for both slots; an admission that leaves a slot empty keeps the
   status "waiting".  Fails when the slot filled last is X. *)
C2_LastAdmissionStartsGame ==
    [][\A s \in Symbols :
          Admitted(s) =>
             IF BothOccupied'
                THEN /\ status' = "ongoing"
                     /\ SentTo(s, <<>>, "ongoing")
                     /\ SentTo(Other(s), chan[Other(s)], "ongoing")
                ELSE status' = "waiting"]_vars

(* C3: a participant that stops draining its channel cannot stop the others:
   no task is ever suspended in a channel send while it holds the session
   lock, so the lock is free again after every step.  Fails: send().await on
   a full channel suspends the sender with the lock held. *)
C3_NoSendUnderLock == lock = "free" /\ pending = <<>>

(* C4 as stated: after any single disconnect both slots are empty. *)
C4_DisconnectClearsBothSlots ==
    [][\A s \in Symbols : Released(s) => (player_x' = None /\ player_o' = None)]_vars

(* C4 amended: a disconnect removes the slot of the participant whose
   connection ended and leaves the other participant's slot as it was. *)
C4_DisconnectClearsOwnSlotOnly ==
    [][\A s \in Symbols :
          Released(s) => (Slot(s)' = None /\ Slot(Other(s))' = Slot(Other(s)))]_vars

\* X left a table of two: O still holds its slot
C4_Witness ==
    /\ last.op = "release" /\ last.by = "X"
    /\ player_x = None /\ player_o # None

(* C5: when either participant disconnects while the status is "ongoing",
   the resulting state has status "waiting", an empty board and
   next_player = "X", whoever disconnected and whatever the board was. *)
C5_DisconnectResetsGame ==
    [][\A s \in Symbols :
          (Released(s) /\ status = "ongoing") =>
             (status' = "waiting" /\ board' = EmptyBoard /\ next_player' = "X")]_vars

\* O left a game that was going on
C5_Witness ==
    /\ last = Outcome("release", "O", "ongoing")
    /\ status = "waiting" /\ board = EmptyBoard /\ next_player = "X"
    /\ player_x # None

----------------------------------------------------------------------------
(* The rules of the game, stated apart from the code's own helpers *)

WinningTriples ==
    {{3 * r, 3 * r + 1, 3 * r + 2} : r \in 0 .. 2}
    \cup {{c, c + 3, c + 6} : c \in 0 .. 2}
    \cup {{0, 4, 8}, {2, 4, 6}}

HasTriple(b) == \E T \in WinningTriples : \E s \in Symbols : \A i \in T : b[i] = s

Full(b) == {i \in Cells : b[i] = ""} = {}

Won(s) == IF s = "X" THEN "X_win" ELSE "O_win"

\* this step puts the symbol s on the empty cell pos and changes no other cell
Placed(s, pos) ==
    /\ board[pos] = ""
    /\ board'[pos] = s
    /\ \A i \in Cells \ {pos} : board'[i] = board[i]

\* this step puts s on a cell and so completes a winning triple of s
Completes(s) ==
    \E pos \in Cells :
       /\ Placed(s, pos)
       /\ \E T \in WinningTriples : pos \in T /\ \A i \in T : board'[i] = s

----------------------------------------------------------------------------
(* C6: every move submission ends with exactly one notification cycle: an
   applied move queues the new snapshot for both occupied slots, a rejected
   move queues one (error-tagged) snapshot for the offending sender and
   nothing for the other participant.  Fails: a rejected move is only logged,
   so nothing is queued for anybody. *)
C6_OneNotificationPerMove ==
    [][MoveStep =>
          LET s == last'.by IN
          IF last'.result = "applied"
             THEN \A t \in Symbols :
                     Slot(t) # None => SentTo(t, chan[t], status')
             ELSE /\ Len(chan'[s]) = Len(chan[s]) + 1
                  /\ chan'[Other(s)] = chan[Other(s)]]_vars

(* C7: a rejected move leaves the session unchanged: board, next_player,
   status and both slots are exactly as before (so a move out of turn leaves
   the board unchanged and a move on an occupied cell leaves next_player
   unchanged), and the connection still reads moves. *)
C7_RejectedMoveChangesNothing ==
    [][(MoveStep /\ last'.result # "applied") =>
          /\ UNCHANGED <<board, next_player, status, player_x, player_o>>
          /\ task'[last'.by] = "reading"]_vars

\* O, whose turn it is, was refused a cell that X holds
C7_Witness ==
    /\ last = Outcome("move", "O", "cell_occupied")
    /\ status = "ongoing" /\ next_player = "O"
    /\ \E i \in Cells : board[i] = "X"

(* C8: once the status is terminal (X won, O won or draw), no move by either
   participant is applied: board, next_player and status stay as they are in
   every step that is not the reset of a disconnect. *)
C8_TerminalStatusFreezesGame ==
    [][(status \in Terminal /\ ~(\E s \in Symbols : Released(s))) =>
          UNCHANGED <<board, next_player, status>>]_vars

\* a move was refused after the game was won with cells still empty
C8_Witness ==
    /\ status \in {"X_win", "O_win"}
    /\ ~Full(board)
    /\ last.op = "move" /\ last.result = "not_ongoing" /\ last.by = next_player

(* C9: when a legal move completes one of the 8 winning triples with the
   mover's symbol, the status becomes Won(mover) in that same step, and never
   "draw", also when that move fills the board. *)
C9_CompletedTripleWins ==
    [][\A s \in Symbols : Completes(s) => status' = Won(s)]_vars

\* X won with the move that filled the board
C9_Witness ==
    /\ status = "X_win"
    /\ Full(board)
    /\ last = Outcome("move", "X", "applied")

(* C10: a game of alternating moves starts with X; every applied move that
   completes no triple leaves the game going with the turn passed to the
   other symbol, until the move that fills the board, which makes the status
   "draw"; and the status is "draw" exactly in the states whose board is full
   and has no completed triple. *)
C10_DrawOnFullBoardWithoutTriple ==
    /\ [](status = "draw" <=> (Full(board) /\ ~HasTriple(board)))
    /\ []((status = "ongoing" /\ board = EmptyBoard) => next_player = "X")
    /\ [][\A s \in Symbols : \A pos \in Cells :
             (Placed(s, pos) /\ ~HasTriple(board')) =>
                IF Full(board')
                   THEN status' = "draw"
                   ELSE status' = "ongoing" /\ next_player' = Other(s)]_vars

\* the ninth move was applied and the game is drawn
C10_Witness ==
    /\ status = "draw"
    /\ Full(board) /\ ~HasTriple(board)
    /\ last = Outcome("move", "X", "applied")

----------------------------------------------------------------------------
(* C11: in every reachable state, status "ongoing" implies that both slots
   are occupied and that the board is not terminal: no completed triple and
   at least one empty cell. *)
C11_OngoingMeansTwoPlayersAndOpenBoard ==
    status = "ongoing" => (BothOccupied /\ ~HasTriple(board) /\ ~Full(board))

\* a game in progress after a move of O
C11_Witness ==
    /\ status = "ongoing" /\ BothOccupied
    /\ last = Outcome("move", "O", "applied")
    /\ \E i \in Cells : board[i] = "O"

----------------------------------------------------------------------------
\* this step handles one call of play()
PlayStep == last' # last /\ last'.op = "play"

(* C12: an admission attempt made while both slots are occupied is rejected
   (resource exhausted); the rejection queues no snapshot, spawns no task and
   leaves board, next_player, status and both slots unchanged; while the
   table is full only an applied move makes a snapshot be sent; and a reset
   is only ever done by a connection that holds a slot, so the end of a
   rejected connection resets nothing. *)
C12_ThirdAdmissionRejected ==
    [][/\ (PlayStep /\ BothOccupied) => last'.result = "resource_exhausted"
       /\ (PlayStep /\ last'.result = "resource_exhausted") =>
             /\ BothOccupied
             /\ UNCHANGED <<board, next_player, status, player_x, player_o,
                            chan, closed, task, lock, pending, client>>
       /\ (BothOccupied /\ lock = "free" /\ board' = board) =>
             \A s \in Symbols : Len(chan'[s]) <= Len(chan[s])
       /\ \A s \in Symbols : Released(s) => Slot(s) # None]_vars

\* a third connection was turned away from a game in progress
C12_Witness ==
    /\ last = Outcome("play", "-", "resource_exhausted")
    /\ BothOccupied /\ status = "ongoing" /\ board # EmptyBoard
    /\ task = [s \in Symbols |-> "reading"]

----------------------------------------------------------------------------
(* C13: an admitted connection is assigned X if slot X is empty, otherwise O
   if slot O is empty; the first snapshot of its channel carries that symbol
   as your_symbol together with the session status of the admission (also
   when that status is "waiting"), and it is the snapshot from which the
   client learns its symbol. *)
C13_FirstSnapshotTellsSymbol ==
    [][/\ \A s \in Symbols :
             Admitted(s) =>
                /\ (s = "X") <=> (player_x = None)
                /\ LET m == GameState(board', next_player', status', s) IN
                      \/ chan'[s] = << m >>
                      \/ /\ chan'[s] = << >>
                         /\ pending' # << >>
                         /\ pending'[Len(pending')] = [to |-> s, msg |-> m]
       /\ (lock = "play" /\ lock' = "free") =>
             chan'["O"] = << GameState(board, next_player, status, "O") >>
       /\ \A s \in Symbols :
             (client[s].player_symbol = << >> /\ client'[s].player_symbol # << >>) =>
                /\ client'[s].player_symbol = << s >>
                /\ client'[s].game_status = Head(chan[s]).status]_vars

\* X was admitted to the empty table: its channel holds the "waiting" snapshot
C13_Witness ==
    /\ last = Outcome("play", "X", "admitted")
    /\ player_o = None
    /\ chan["X"] = << GameState(EmptyBoard, "X", "waiting", "X") >>
    /\ client["X"] = ClientNew

----------------------------------------------------------------------------
\* the snapshots this step sends to s: queued on its channel or still held
\* by the suspended sender
NewFor(s) ==
    {pending'[i].msg : i \in {j \in DOMAIN pending' : pending'[j].to = s}}
    \cup
    (IF Admitted(s)
        THEN {chan'[s][i] : i \in DOMAIN chan'[s]}
        ELSE {chan'[s][i] : i \in (Len(chan[s]) + 1) .. Len(chan'[s])})

\* every snapshot in flight names the symbol of the slot it was sent to
SymbolsMatch ==
    /\ \A s \in Symbols : Slot(s) # None => Slot(s).symbol = s
    /\ \A s \in Symbols : \A i \in DOMAIN chan[s] : chan[s][i].your_symbol = s
    /\ \A i \in DOMAIN pending : pending[i].msg.your_symbol = pending[i].to

(* C14: every snapshot sent on a slot's channel carries that slot's symbol
   as recipient symbol; the snapshots one notification cycle sends to the
   two slots (at most one each) carry the same board, next_player and
   status, which are those of the session after the step. *)
C14_SnapshotsNameRecipientAndAgree ==
    /\ []SymbolsMatch
    /\ [][lock = "free" =>
             /\ \A s \in Symbols : Cardinality(NewFor(s)) <= 1
             /\ \A s \in Symbols : \A m \in NewFor(s) :
                   /\ m.your_symbol = s
                   /\ m.board = board'
                   /\ m.next_player = next_player'
                   /\ m.status = status'
             /\ \A mx \in NewFor("X") : \A mo \in NewFor("O") :
                   /\ mx.board = mo.board
                   /\ mx.next_player = mo.next_player
                   /\ mx.status = mo.status]_vars

\* both channels hold the snapshot of the same applied move
C14_Witness ==
    /\ last = Outcome("move", "X", "applied")
    /\ chan["X"] = << GameState(board, next_player, status, "X") >>
    /\ chan["O"] = << GameState(board, next_player, status, "O") >>
    /\ board # EmptyBoard

----------------------------------------------------------------------------
\* the channel of s is a queue: a step leaves what is queued in place,
\* possibly hands the head to the client, possibly adds at the tail
Fifo(s) ==
    LET q == chan[s]
        n == Len(chan[s])
    IN \/ Admitted(s)
       \/ Released(s)
       \/ ~closed[s] /\ closed'[s]
       \/ /\ Len(chan'[s]) >= n
          /\ SubSeq(chan'[s], 1, n) = q
          /\ client'[s] = client[s]
       \/ /\ n >= 1
          /\ Len(chan'[s]) >= n - 1
          /\ SubSeq(chan'[s], 1, n - 1) = Tail(q)
          /\ client'[s] = ClientUpdate(client[s], Head(q))

\* snapshot b can directly follow snapshot a: b shows a's board with one more
\* mark, put by the player a names as next, or b starts a new game
Follows(a, b) ==
    \/ b.board = EmptyBoard
    \/ /\ a.status = "ongoing"
       /\ \E c \in Cells : /\ a.board[c] = ""
                           /\ b.board = [a.board EXCEPT ![c] = a.next_player]

\* what s has yet to receive: its queue, then what the suspended sender holds
PendingFor(s) == SelectSeq(pending, LAMBDA e : e.to = s)

Outstanding(s) ==
    chan[s] \o [i \in 1 .. Len(PendingFor(s)) |-> PendingFor(s)[i].msg]

InOrder ==
    \A s \in Symbols :
       \A i \in 1 .. (Len(Outstanding(s)) - 1) :
          Follows(Outstanding(s)[i], Outstanding(s)[i + 1])

(* C15: both participants receive the snapshots of successive successful
   moves in the order in which the moves were applied: the snapshot of an
   applied move is sent to every occupied slot behind everything sent
   before, channels are first-in first-out, and so every queue lists
   successive boards in the order they were produced. *)
C15_SnapshotsInMoveOrder ==
    /\ []InOrder
    /\ [][/\ \A s \in Symbols : Fifo(s)
          /\ (MoveStep /\ last'.result = "applied") =>
                \A s \in Symbols :
                   LET m == GameState(board', next_player', status', s) IN
                   Slot(s) # None =>
                      \/ chan'[s] = Append(chan[s], m)
                      \/ /\ chan'[s] = chan[s]
                         /\ \E i \in DOMAIN pending' :
                               pending'[i] = [to |-> s, msg |-> m]
                      \/ /\ chan'[s] = chan[s]
                         /\ closed[s]]_vars

\* the snapshot of X's move is queued behind an earlier snapshot that its
\* receiver has not read yet
C15_Witness ==
    /\ last = Outcome("move", "X", "applied")
    /\ \E s \in Symbols :
          /\ Len(chan[s]) >= 2
          /\ chan[s][Len(chan[s])].board = board
          /\ chan[s][Len(chan[s]) - 1].board # board
    /\ board # EmptyBoard

----------------------------------------------------------------------------
(* C16: every admitted connection does its release/reset, once, after its
   inbound stream has ended, and applies no move afterwards; in particular,
   once the stream has ended the release does happen and empties the slot.
   Stated over finite runs: the server never comes to rest while a
   connection whose stream has ended still waits to do its release.  Fails:
   the release needs the session lock, and the lock is never given back by a
   sender suspended on the full channel of a client that does not read
   (see C3). *)
C16_ReleaseFollowsStreamEnd ==
    (\E s \in Symbols : task[s] = "ended") => ENABLED Next

----------------------------------------------------------------------------
\* the results of the checks made before the position is looked at
EarlierCheck == {"not_ongoing", "not_your_turn"}

(* C17, as stated: a move whose position is not in [0,8) is rejected as an
   invalid position (when it gets as far as the position check) and changes
   no cell, negative positions included.  Fails for position 8, which is a
   cell of the board and is accepted. *)
C17_OutsideZeroToSevenRejected ==
    [][MoveStep =>
          \A p \in Positions \ (0 .. 7) :
             \/ /\ board' = board
                /\ \/ Check(last'.by, p) \in EarlierCheck
                   \/ last'.result = "invalid_position"
             \/ ~Move(last'.by, last'.by, p)]_vars

(* C17, amended: a move whose position is not one of the cells 0 .. 8, i.e.
   not in [0,9), is rejected as an invalid position (when it gets as far as
   the position check) and changes no cell; this includes negative values
   of the signed field, which never index the board.  A position in [0,9)
   is never rejected as invalid. *)
C17_OutsideBoardRejected ==
    [][MoveStep =>
          /\ \A p \in Positions \ (0 .. (BoardSize - 1)) :
                \/ /\ board' = board
                   /\ \/ Check(last'.by, p) \in EarlierCheck
                      \/ last'.result = "invalid_position"
                \/ ~Move(last'.by, last'.by, p)
          /\ \A p \in Positions \cap (0 .. (BoardSize - 1)) :
                \/ last'.result # "invalid_position"
                \/ ~Move(last'.by, last'.by, p)]_vars

\* a move of O was refused for its position in a game in progress
C17_Witness ==
    /\ last = Outcome("move", "O", "invalid_position")
    /\ status = "ongoing"
    /\ next_player = "O"
    /\ board # EmptyBoard

----------------------------------------------------------------------------
(* C18: when one participant disconnects while the other stays connected,
   the one that stays receives a snapshot with status "waiting", so the last
   status its client has received is not left at "ongoing" after the table
   was reset.  Stated over finite runs: once the table is reset to "waiting"
   with s still seated and s's client has received everything sent to it,
   the status the client holds is not "ongoing".  Fails: the reset sends
   nothing. *)
C18_RemainingPlayerToldWaiting ==
    \A s \in Symbols :
       (/\ Slot(s) # None
        /\ Slot(Other(s)) = None
        /\ status = "waiting"
        /\ ~closed[s]
        /\ chan[s] = << >>
        /\ pending = << >>)
       => client[s].game_status # "ongoing"

----------------------------------------------------------------------------
(* C19: a move is attributed to the symbol assigned to the connection it
   arrived on, whatever symbol the Move claims: a step is the handling of a
   Move of connection s that claims the opponent's symbol exactly when it is
   the handling of the same Move claiming s (same acceptance or rejection,
   same effect), and a connection assigned s only ever sets a cell to s,
   and only on its own turn. *)
C19_ClaimedSymbolIgnored ==
    [][\A s \in Symbols : \A p \in Positions :
          /\ Move(s, Other(s), p) <=> Move(s, s, p)
          /\ Move(s, Other(s), p) =>
                /\ last'.by = s
                /\ \A i \in Cells :
                      board'[i] # board[i] => (board'[i] = s /\ next_player = s)]_vars

\* a move that arrived on O's connection was applied and won the game for O
C19_Witness ==
    /\ last = Outcome("move", "O", "applied")
    /\ status = "O_win"
    /\ HasTriple(board)

----------------------------------------------------------------------------
\* the number of cells that hold the mark of s
Marks(s) == Cardinality({i \in Cells : board[i] = s})

(* C20: in every reachable state the number of X cells minus the number of
   O cells is 0 or 1; while the status is "ongoing", next_player is X
   exactly when the two numbers are equal; and the board is empty whenever
   the status is "waiting". *)
C20_MarksAlternate ==
    /\ Marks("X") - Marks("O") \in {0, 1}
    /\ status = "ongoing" => ((next_player = "X") <=> (Marks("X") = Marks("O")))
    /\ status = "waiting" => board = EmptyBoard

\* a game in progress with O to move after X's second mark
C20_Witness ==
    /\ status = "ongoing"
    /\ last = Outcome("move", "X", "applied")
    /\ Marks("X") = 2
    /\ Marks("O") = 1
    /\ next_player = "O"

====
